---- MODULE Spec2Model ----
(***************************************************************************)
(* A model of bot.py, the Telegram AI chatbot: the preference store, the   *)
(* history log, the delivery chunker (split_text) and the message pipeline *)
(* (on_message, details_cmd, clear_cmd, auto_cmd, language_cb).            *)
(*                                                                         *)
(* A text is a sequence of symbols.  The alphabet is small: letters, the   *)
(* whitespace characters space, newline and tab, and whole words or        *)
(* phrases taken as one symbol where the program only compares or matches  *)
(* them (incoming words, canned replies, interface messages).              *)
(*                                                                         *)
(* Three specifications share the definitions:                             *)
(*   Spec       one user's conversation: messages, /details, /clear,       *)
(*              /auto and language buttons, the AI call and the transport  *)
(*              free to fail;                                              *)
(*   SpecPrefs  the preference store under /auto and the language buttons  *)
(*              of every user;                                             *)
(*   SpecSplit  split_text applied to every text and max_len in bounds.    *)
(***************************************************************************)
EXTENDS Integers, Sequences, FiniteSets, TLC

VARIABLES
    sp_text,      \* split_text: the argument text
    sp_max_len,   \* split_text: the argument max_len
    sp_out,       \* split_text: the list returned
    sp_pc         \* "call" before split_text has run, "returned" after

splitVars == <<sp_text, sp_max_len, sp_out, sp_pc>>

VARIABLES
    users,        \* table users: user_id -> [language, auto_detect], a row per known user
    logs,         \* table logs in rowid order: [user_id, role, message]
    pc,           \* where the handler in progress stands; "idle" when none is
    upd,          \* the update being handled: [kind, uid, text, data]
    loc,          \* the handler's local variables
    sent,         \* what the transport accepted from this handler, in order
    logs0,        \* table logs when the handler started
    answered,     \* per user: the answer whose delivery completed last, <<>> if none
    fresh         \* per user: the newest bot turn logged is the one in answered

storeVars == <<users, logs>>
handlerVars == <<pc, upd, loc, sent, logs0>>
ghostVars == <<answered, fresh>>

VARIABLES
    call,         \* a function called on its own: [fn, args, ret, again]
    hist          \* per user: what log_message was given since the last
                  \* clear_logs of the user, oldest first, when called on its own

callVars == <<call, hist>>

VARIABLES
    queue,        \* updates received and not taken yet: [u, waited]
    handled       \* updates taken from the queue so far, each with the tables
                  \* as they were then: [u, waited, users, logs]

queueVars == <<queue, handled>>

\* What a handler never touches.
asideVars == <<splitVars, callVars, queueVars>>

vars == <<splitVars, storeVars, handlerVars, ghostVars, callVars, queueVars>>

----------------------------------------------------------------------------
(* Bounds of the model.                                                    *)

\* Longest text handed to split_text on its own.
MaxTextLen == 5
\* Largest max_len handed to split_text on its own.
MaxSplitLen == 4
\* Users of the bot.
NumUsers == 2
\* Rows of table logs: no update is taken that could add more.
MaxLogs == 3
\* Stands for max_len = 4000, the default the handlers call split_text
\* with; the AI replies of the model are scaled to it.
DefaultMaxLen == 3

UserIds == 1 .. NumUsers

\* The user whose conversation the pipeline is followed for.  Every
\* statement on the tables is keyed by user_id and updates are handled one
\* after the other, so the updates of other users leave it alone.
ChatUser == CHOOSE u \in UserIds : \A v \in UserIds : u <= v

----------------------------------------------------------------------------
(* Text: Python str operations used by the program.                        *)

SP == " "
NL == "\n"
TAB == "\t"

\* Characters str.strip() removes (str.isspace).
Whitespace == {SP, NL, TAB}

Letters == {"a", "b"}

Chars == Letters \cup Whitespace

RECURSIVE lstrip(_)
lstrip(s) ==
    IF s # <<>> /\ Head(s) \in Whitespace THEN lstrip(Tail(s)) ELSE s

RECURSIVE rstrip(_)
rstrip(s) ==
    IF s # <<>> /\ s[Len(s)] \in Whitespace
    THEN rstrip(SubSeq(s, 1, Len(s) - 1))
    ELSE s

\* s.strip()
strip(s) == rstrip(lstrip(s))

Min(a, b) == IF a < b THEN a ELSE b

\* s.rfind(c, 0, end): the highest 0-based index i < min(end, len(s)) with
\* s[i] = c, or -1.
rfind(s, c, end) ==
    LET hits == {i \in 0 .. (Min(end, Len(s)) - 1) : s[i + 1] = c}
    IN  IF hits = {} THEN -1 ELSE CHOOSE i \in hits : \A j \in hits : j <= i

\* s[:i] and s[i:] for 0 <= i
Take(s, i) == SubSeq(s, 1, Min(i, Len(s)))
Drop(s, i) == SubSeq(s, Min(i, Len(s)) + 1, Len(s))

\* "".join(chunks)
RECURSIVE Join(_)
Join(ss) == IF ss = <<>> THEN <<>> ELSE Head(ss) \o Join(Tail(ss))

----------------------------------------------------------------------------
(* split_text                                                              *)

\* A hard cut one character too far.
CutIndex_offByOne(t, max_len) ==
    LET n == rfind(t, NL, max_len)
        s == rfind(t, SP, max_len)
    IN  IF n # -1 THEN n ELSE IF s # -1 THEN s ELSE max_len + 1

\* The last space preferred to the last newline.
CutIndex_spaceFirst(t, max_len) ==
    LET n == rfind(t, NL, max_len)
        s == rfind(t, SP, max_len)
    IN  IF s # -1 THEN s ELSE IF n # -1 THEN n ELSE max_len

\* Lines 129-131: where the loop cuts t.
CutIndex(t, max_len) ==
    LET n == rfind(t, NL, max_len)
        s == rfind(t, SP, max_len)
    IN  IF n # -1 THEN n ELSE IF s # -1 THEN s ELSE max_len

\* The loop continuing after the character at the cut: t = t[i+1:].
RECURSIVE SplitLoop_skipCut(_, _, _)
SplitLoop_skipCut(out, t, max_len) ==
    IF Len(t) > max_len
    THEN LET i == CutIndex(t, max_len)
         IN  CHOOSE r \in {SplitLoop_skipCut(Append(out, strip(Take(t, i))), rest, max_len) :
                             rest \in {strip(Drop(t, i + 1))}} : TRUE
    ELSE IF t # <<>> THEN Append(out, t) ELSE out

\* Lines 128-135: the while loop and what follows it.  The t of the next
\* iteration, t[i:].strip(), is drawn from the set that holds only it, so
\* that it is a value when the loop goes on.
RECURSIVE SplitLoop(_, _, _)
SplitLoop(out, t, max_len) ==
    IF Len(t) > max_len
    THEN LET i == CutIndex(t, max_len)
         IN  CHOOSE r \in {SplitLoop(Append(out, strip(Take(t, i))), rest, max_len) :
                             rest \in {strip(Drop(t, i))}} : TRUE
    ELSE IF t # <<>> THEN Append(out, t) ELSE out

split_text(text, max_len) ==
    IF text = <<>> THEN << <<>> >> ELSE SplitLoop(<<>>, strip(text), max_len)

----------------------------------------------------------------------------
(* The database: tables users and logs.                                    *)

\* A row of SELECT ... LIMIT 1 is <<value>>, no row is <<>>.
NoRow == <<>>

\* INSERT OR REPLACE: the row is rebuilt with the default auto_detect.
set_user_language_replace(t, user_id, lang) ==
    (user_id :> [language |-> lang, auto_detect |-> 1]) @@ t

\* The upsert of line 92 on table t.
set_user_language(t, user_id, lang) ==
    LET excluded == [language |-> lang,
                     auto_detect |-> IF user_id \in DOMAIN t
                                     THEN t[user_id].auto_detect ELSE 1]
    IN  IF user_id \in DOMAIN t
        THEN [t EXCEPT ![user_id].language = excluded.language]
        ELSE (user_id :> excluded) @@ t

\* INSERT OR REPLACE: the row is rebuilt with the default language.
set_auto_detect_replace(t, user_id, enabled) ==
    (user_id :> [language |-> "en", auto_detect |-> IF enabled THEN 1 ELSE 0]) @@ t

\* The upsert of line 97 on table t.
set_auto_detect(t, user_id, enabled) ==
    LET excluded == [language |-> IF user_id \in DOMAIN t
                                  THEN t[user_id].language ELSE "en",
                     auto_detect |-> IF enabled THEN 1 ELSE 0]
    IN  IF user_id \in DOMAIN t
        THEN [t EXCEPT ![user_id].auto_detect = excluded.auto_detect]
        ELSE (user_id :> excluded) @@ t

\* (language, auto_detect) as read, with the defaults of lines 105 and 107.
get_user_prefs(t, user_id) ==
    IF user_id \notin DOMAIN t
    THEN [lang |-> "en", auto |-> TRUE]
    ELSE [lang |-> IF t[user_id].language = "" THEN "en" ELSE t[user_id].language,
          auto |-> t[user_id].auto_detect # 0]

log_message(l, user_id, role, message) ==
    Append(l, [user_id |-> user_id, role |-> role, message |-> message])

\* The DELETE restricted to the turns of the user: the bot turns stay.
clear_logs_userTurnsOnly(l, user_id) ==
    SelectSeq(l, LAMBDA r : ~(r.user_id = user_id /\ r.role = "user"))

\* Line 114.
clear_logs(l, user_id) == SelectSeq(l, LAMBDA r : r.user_id # user_id)

\* SELECT ... WHERE user_id=? ORDER BY rowid: the user's rows, oldest first.
RowsOf(l, user_id) == SelectSeq(l, LAMBDA r : r.user_id = user_id)

\* rows.reverse()
Reverse(s) == [k \in 1 .. Len(s) |-> s[Len(s) + 1 - k]]

\* The list returned as fetched, newest first: rows.reverse() left out.
get_history_noReverse(l, user_id, limit) ==
    LET desc == Reverse(RowsOf(l, user_id))
        rows == IF limit < 0 THEN desc ELSE Take(desc, limit)
    IN  [k \in 1 .. Len(rows) |-> <<rows[k].role, rows[k].message>>]

\* Lines 118-121: the rows of the user newest first (ORDER BY rowid DESC),
\* the first limit of them (all of them when limit is negative, as LIMIT
\* has it), and the list reversed.
get_history(l, user_id, limit) ==
    LET desc == Reverse(RowsOf(l, user_id))
        rows == IF limit < 0 THEN desc ELSE Take(desc, limit)
    IN  Reverse([k \in 1 .. Len(rows) |-> <<rows[k].role, rows[k].message>>])

\* SELECT message ... WHERE user_id=? AND role=? ORDER BY rowid DESC LIMIT 1
last_message(l, user_id, role) ==
    LET rows == SelectSeq(l, LAMBDA r : r.user_id = user_id /\ r.role = role)
    IN  IF rows = <<>> THEN NoRow ELSE <<rows[Len(rows)].message>>

----------------------------------------------------------------------------
(* Interface messages, language detection, auto replies, context, AI call. *)

Languages == {"ar", "fr", "en"}

\* UI[key].get(lang, UI[key]["en"]): the text of key in lang, in English
\* when lang has none.
UiText(key, lang) == <<key, IF lang \in Languages THEN lang ELSE "en">>

\* code.startswith(prefix), codes and prefixes being character sequences.
StartsWith(code, prefix) ==
    Len(code) >= Len(prefix) /\ SubSeq(code, 1, Len(prefix)) = prefix

\* What langdetect.detect does with a text: a language code, or an exception.
DetectOutcomes ==
    {[raised |-> FALSE, code |-> c] :
        c \in {<<"a", "r">>, <<"f", "r">>, <<"d", "e">>, <<"z", "h", "-", "c", "n">>}}
    \cup {[raised |-> TRUE, code |-> <<>>]}

detect_lang(outcome) ==
    IF outcome.raised THEN "en"
    ELSE IF StartsWith(outcome.code, <<"a", "r">>) THEN "ar"
    ELSE IF StartsWith(outcome.code, <<"f", "r">>) THEN "fr"
    ELSE "en"

\* A pattern looks for one of its words, at the start of the text when
\* anchored (^...\b) and anywhere otherwise; a word is one symbol of a text.
AUTO_PATTERNS ==
    [ar |-> << [anchored |-> TRUE,  words |-> {"salam"},
                reply |-> <<"ar:greeting">>],
               [anchored |-> FALSE, words |-> {"shukran"},
                reply |-> <<"ar:welcome">>],
               [anchored |-> FALSE, words |-> {"man anta"},
                reply |-> <<"ar:identity">>] >>,
     fr |-> << [anchored |-> TRUE,  words |-> {"salut", "bonjour", "bonsoir"},
                reply |-> <<"fr:greeting">>],
               [anchored |-> FALSE, words |-> {"merci", "thanks"},
                reply |-> <<"fr:welcome">>],
               [anchored |-> FALSE, words |-> {"tu es qui", "c'est quoi ce bot"},
                reply |-> <<"fr:identity">>] >>,
     en |-> << [anchored |-> TRUE,  words |-> {"hi", "hello", "hey"},
                reply |-> <<"en:greeting">>],
               [anchored |-> FALSE, words |-> {"thanks", "thank you"},
                reply |-> <<"en:welcome">>],
               [anchored |-> FALSE, words |-> {"who are you", "what are you"},
                reply |-> <<"en:identity">>] >>]

\* rx.search(text)
Search(rx, text) ==
    IF rx.anchored
    THEN text # <<>> /\ Head(text) \in rx.words
    ELSE \E k \in 1 .. Len(text) : text[k] \in rx.words

\* The rules of lang, AUTO_PATTERNS.get(lang, []).
RulesOf(lang) == IF lang \in DOMAIN AUTO_PATTERNS THEN AUTO_PATTERNS[lang] ELSE <<>>

\* The loop going on after a match: the reply of the last rule that matches.
try_auto_reply_lastMatch(text, lang) ==
    LET rules == RulesOf(lang)
        hits == {k \in 1 .. Len(rules) : Search(rules[k], text)}
    IN  IF hits = {} THEN <<>>
        ELSE <<rules[CHOOSE k \in hits : \A j \in hits : j <= k].reply>>

\* The reply of the first rule that matches, as <<reply>>; <<>> for None.
try_auto_reply(text, lang) ==
    LET rules == RulesOf(lang)
        hits == {k \in 1 .. Len(rules) : Search(rules[k], text)}
    IN  IF hits = {} THEN <<>>
        ELSE <<rules[CHOOSE k \in hits : \A j \in hits : k <= j].reply>>

\* The history entries passed on with the role they were logged with.
build_context_messages_rolesAsLogged(l, user_id, lang, max_items) ==
    LET h == get_history(l, user_id, max_items)
    IN  <<[role |-> "system", content |-> UiText("system", lang)]>>
        \o [k \in 1 .. Len(h) |-> [role |-> h[k][1], content |-> h[k][2]]]

\* Lines 242-250.
build_context_messages(l, user_id, lang, max_items) ==
    LET h == get_history(l, user_id, max_items)
    IN  <<[role |-> "system", content |-> UiText("system", lang)]>>
        \o [k \in 1 .. Len(h) |->
               [role |-> IF h[k][1] = "user" THEN "user" ELSE "assistant",
                content |-> h[k][2]]]

\* Lines 360-364: the clause details_cmd adds to the system message.
DetailClause(lang) == <<"detail", IF lang \in Languages THEN lang ELSE "any">>

\* The apology of line 264.
Apology == <<"Sorry, the AI service is unavailable right now.">>

\* Replies of the AI service: one chunk, three chunks, only whitespace.
ReplyShort == <<"a">>
ReplyLong == <<"a", "a", SP, "b", "b", NL, "a", "b">>
ReplyBlank == <<SP>>

\* What the request of line 258 comes to: a reply, or one of the failures
\* (requests raising on a timeout or a transport error, raise_for_status
\* on a status that is not 2xx, r.json() or the indexing of line 261 on a
\* malformed payload).
AIOutcomes ==
    {[kind |-> "ok", content |-> r] : r \in {ReplyShort, ReplyLong, ReplyBlank}}
    \cup {[kind |-> k, content |-> <<>>] :
             k \in {"timeout", "transport", "status", "malformed"}}

\* The except clause missing the malformed payload: no content comes back.
call_mistral_malformedLeaks(outcome) ==
    IF outcome.kind \in {"ok", "malformed"} THEN outcome.content ELSE Apology

call_mistral(outcome) ==
    IF outcome.kind = "ok" THEN outcome.content ELSE Apology

\* History items build_context_messages is asked for (lines 358 and 398).
ContextItems == 18

----------------------------------------------------------------------------
(* The handlers.  main() builds the application without concurrent_updates, *)
(* so an update is handled to its end before the next one is taken.  Every *)
(* await on the transport either returns or raises.                        *)

NoUpdate == [kind |-> "none", uid |-> 0, text |-> <<>>, data |-> <<>>]

NoLocals ==
    [pref_lang |-> "", auto |-> FALSE, lang |-> "", auto_reply |-> <<>>,
     row |-> <<>>, msgs |-> <<>>, ai |-> "", reply |-> <<>>, chunks |-> <<>>,
     i |-> 0]

\* split_text is not being run on its own.
SplitIdle ==
    /\ sp_text = <<>>
    /\ sp_max_len = 1
    /\ sp_out = <<>>
    /\ sp_pc = "idle"

\* No function is being called on its own.
NoCall ==
    [fn |-> "none", args |-> <<>>, ret |-> <<>>, again |-> FALSE, pc |-> "none"]

CallIdle ==
    /\ call = NoCall
    /\ hist = [u \in UserIds |-> <<>>]

\* No update is waiting and none was taken from the queue.
QueueIdle ==
    /\ queue = <<>>
    /\ handled = <<>>

HandlerIdle ==
    /\ pc = "idle"
    /\ upd = NoUpdate
    /\ loc = NoLocals
    /\ sent = <<>>
    /\ logs0 = <<>>

\* Texts of incoming messages.
MessageTexts == {<<"hello">>, <<"explain", SP, "recursion">>}

\* Payloads of callback queries: the three buttons, and two other payloads
\* the pattern ^lang_ lets through.
Payloads ==
    {<<"lang", "_", c>> : c \in {"ar", "fr", "en", "xx"}} \cup {<<"lang", "_">>}

\* q.data.split("_", 1)[1] of a payload "lang_<code>", <code> one symbol or none.
PayloadCode(data) ==
    LET rest == SubSeq(data, 3, Len(data))
    IN  IF rest = <<>> THEN "" ELSE Head(rest)

\* The updates of the users uids: text messages, commands, button presses.
MessageUpdates(uids) ==
    {[kind |-> "message", uid |-> u, text |-> t, data |-> <<>>] :
        u \in uids, t \in MessageTexts}

CommandUpdates(uids, commands) ==
    {[kind |-> k, uid |-> u, text |-> <<>>, data |-> <<>>] :
        u \in uids, k \in commands}

CallbackUpdates(uids) ==
    {[kind |-> "callback", uid |-> u, text |-> <<>>, data |-> d] :
        u \in uids, d \in Payloads}

\* What one user sends in a conversation.
ChatUpdates ==
    MessageUpdates({ChatUser})
    \cup CommandUpdates({ChatUser}, {"details", "clear", "auto"})
    \cup CallbackUpdates({ChatUser})

\* What the users send to set their preferences.
PrefsUpdates == CommandUpdates(UserIds, {"auto"}) \cup CallbackUpdates(UserIds)

\* Rows the handler of an update may add to table logs.
RowsAdded(kind) == IF kind = "message" THEN 2 ELSE IF kind = "details" THEN 1 ELSE 0

FirstPc(kind) ==
    CASE kind = "message"  -> "resolve"
      [] kind = "details"  -> "d_prefs"
      [] kind = "clear"    -> "c_clear"
      [] kind = "auto"     -> "a_toggle"
      [] kind = "callback" -> "l_answer"

\* The application takes the next update and calls its handler.
Dispatch(u) ==
    /\ pc = "idle"
    /\ Len(logs) + RowsAdded(u.kind) <= MaxLogs
    /\ upd' = u
    /\ pc' = FirstPc(u.kind)
    /\ loc' = NoLocals
    /\ sent' = <<>>
    /\ logs0' = logs
    /\ UNCHANGED <<storeVars, ghostVars, asideVars>>

\* A transport call that returned: the message it sent or edited.
Delivered(op, via, text) == Append(sent, [op |-> op, via |-> via, text |-> text])

\* The handler is over: its local variables are gone.
HandlerEnds ==
    /\ pc' = "idle"
    /\ upd' = NoUpdate
    /\ loc' = NoLocals
    /\ sent' = <<>>
    /\ logs0' = <<>>

\* The handler returned.
Return ==
    /\ pc = "done"
    /\ HandlerEnds
    /\ UNCHANGED <<storeVars, ghostVars, asideVars>>

\* The handler raised: on_error logs the exception.
on_error ==
    /\ pc = "failed"
    /\ HandlerEnds
    /\ UNCHANGED <<storeVars, ghostVars, asideVars>>

----------------------------------------------------------------------------
(* on_message                                                              *)

\* The language of the turn when detection is asked whatever auto is.
EffectiveLanguage_alwaysDetect(prefs, outcome) == detect_lang(outcome)

\* Line 384.
EffectiveLanguage(prefs, outcome) ==
    IF prefs.auto THEN detect_lang(outcome) ELSE prefs.lang

\* Lines 379-384: the preferences, then the language of the turn.
Resolve ==
    /\ pc = "resolve"
    /\ \E outcome \in DetectOutcomes :
          LET prefs == get_user_prefs(users, upd.uid)
          IN  loc' = [loc EXCEPT !.pref_lang = prefs.lang,
                                 !.auto = prefs.auto,
                                 !.lang = EffectiveLanguage(prefs, outcome)]
    /\ pc' = "log_user"
    /\ UNCHANGED <<upd, sent, logs0, storeVars, ghostVars, asideVars>>

\* The user turn not stored.
LogUser_noAppend ==
    /\ pc = "log_user"
    /\ pc' = "auto_reply"
    /\ UNCHANGED <<upd, loc, sent, logs0, storeVars, ghostVars, asideVars>>

\* Line 387.
LogUser ==
    /\ pc = "log_user"
    /\ logs' = log_message(logs, upd.uid, "user", upd.text)
    /\ pc' = "auto_reply"
    /\ UNCHANGED <<users, upd, loc, sent, logs0, ghostVars, asideVars>>

\* Lines 390-391: the matcher, and the branch on its result.
AutoReply ==
    /\ pc = "auto_reply"
    /\ LET r == try_auto_reply(upd.text, loc.lang)
       IN  /\ loc' = [loc EXCEPT !.auto_reply = r]
           /\ pc' = IF r # <<>> /\ r[1] # <<>> THEN "log_auto" ELSE "loading"
    /\ UNCHANGED <<upd, sent, logs0, storeVars, ghostVars, asideVars>>

\* The auto reply not written to table logs.
LogAuto_noAppend ==
    /\ pc = "log_auto"
    /\ fresh' = [fresh EXCEPT ![upd.uid] = FALSE]
    /\ pc' = "send_auto"
    /\ UNCHANGED <<storeVars, upd, loc, sent, logs0, answered, asideVars>>

\* Line 392.
LogAuto ==
    /\ pc = "log_auto"
    /\ logs' = log_message(logs, upd.uid, "bot", loc.auto_reply[1])
    /\ fresh' = [fresh EXCEPT ![upd.uid] = FALSE]
    /\ pc' = "send_auto"
    /\ UNCHANGED <<users, upd, loc, sent, logs0, answered, asideVars>>

\* The auto reply sent without the return of line 394: the handler goes on.
SendAuto_noReturn ==
    /\ pc = "send_auto"
    /\ \E ok \in BOOLEAN :
          IF ok
          THEN /\ sent' = Delivered("send", "auto", loc.auto_reply[1])
               /\ answered' = [answered EXCEPT ![upd.uid] = <<loc.auto_reply[1]>>]
               /\ fresh' = [fresh EXCEPT ![upd.uid] = TRUE]
               /\ pc' = "loading"
          ELSE /\ pc' = "failed"
               /\ UNCHANGED <<sent, ghostVars>>
    /\ UNCHANGED <<upd, loc, logs0, storeVars, asideVars>>

\* Line 393: reply_text returns, or raises.
SendAuto ==
    /\ pc = "send_auto"
    /\ \E ok \in BOOLEAN :
          IF ok
          THEN /\ sent' = Delivered("send", "auto", loc.auto_reply[1])
               /\ answered' = [answered EXCEPT ![upd.uid] = <<loc.auto_reply[1]>>]
               /\ fresh' = [fresh EXCEPT ![upd.uid] = TRUE]
               /\ pc' = "done"
          ELSE /\ pc' = "failed"
               /\ UNCHANGED <<sent, ghostVars>>
    /\ UNCHANGED <<upd, loc, logs0, storeVars, asideVars>>

----------------------------------------------------------------------------
(* The AI path of on_message (lines 397-409) and of details_cmd (lines     *)
(* 357-374): placeholder, context, AI call, bot turn, chunks, delivery.    *)

\* Lines 397 and 357: the placeholder message.
Loading ==
    /\ pc = "loading"
    /\ \E ok \in BOOLEAN :
          IF ok
          THEN /\ sent' = Delivered("send", "placeholder", UiText("loading", loc.lang))
               /\ pc' = "context"
          ELSE /\ pc' = "failed"
               /\ UNCHANGED sent
    /\ UNCHANGED <<upd, loc, logs0, storeVars, ghostVars, asideVars>>

\* Lines 398 and 358-364.
Context ==
    /\ pc = "context"
    /\ LET m == build_context_messages(logs, upd.uid, loc.lang, ContextItems)
       IN  loc' = [loc EXCEPT !.msgs =
                     IF upd.kind = "details"
                     THEN [m EXCEPT ![1].content = @ \o DetailClause(loc.lang)]
                     ELSE m]
    /\ pc' = "call"
    /\ UNCHANGED <<upd, sent, logs0, storeVars, ghostVars, asideVars>>

\* Lines 399 and 365.
CallAI ==
    /\ pc = "call"
    /\ \E outcome \in AIOutcomes :
          loc' = [loc EXCEPT !.ai = outcome.kind, !.reply = call_mistral(outcome)]
    /\ pc' = "log_bot"
    /\ UNCHANGED <<upd, sent, logs0, storeVars, ghostVars, asideVars>>

\* The bot turn not written before the delivery.
LogBot_noAppend ==
    /\ pc = "log_bot"
    /\ fresh' = [fresh EXCEPT ![upd.uid] = FALSE]
    /\ pc' = "split"
    /\ UNCHANGED <<storeVars, upd, loc, sent, logs0, answered, asideVars>>

\* Lines 400 and 366.
LogBot ==
    /\ pc = "log_bot"
    /\ logs' = log_message(logs, upd.uid, "bot", loc.reply)
    /\ fresh' = [fresh EXCEPT ![upd.uid] = FALSE]
    /\ pc' = "split"
    /\ UNCHANGED <<users, upd, loc, sent, logs0, answered, asideVars>>

\* Lines 402 and 367.
Split ==
    /\ pc = "split"
    /\ loc' = [loc EXCEPT !.chunks = split_text(loc.reply, DefaultMaxLen), !.i = 0]
    /\ pc' = "edit"
    /\ UNCHANGED <<upd, sent, logs0, storeVars, ghostVars, asideVars>>

\* The delivery loop is over: an answer of which something was delivered
\* is the answer delivered last.
Finished ==
    /\ pc' = "done"
    /\ IF loc.chunks # <<>>
       THEN /\ answered' = [answered EXCEPT ![upd.uid] = <<loc.reply>>]
            /\ fresh' = [fresh EXCEPT ![upd.uid] = TRUE]
       ELSE UNCHANGED ghostVars

\* The except clause sending chunks[1:] only, after a failed edit.
EditFirst_fallbackSkipsFirst ==
    /\ pc = "edit"
    /\ \E ok \in BOOLEAN :
          IF ok /\ loc.chunks # <<>>
          THEN /\ sent' = Delivered("edit", "first", loc.chunks[1])
               /\ loc' = [loc EXCEPT !.i = 1]
               /\ pc' = "rest"
          ELSE /\ loc' = [loc EXCEPT !.i = Min(1, Len(loc.chunks))]
               /\ pc' = "fallback"
               /\ UNCHANGED sent
    /\ UNCHANGED <<upd, logs0, storeVars, ghostVars, asideVars>>

\* Lines 404 and 369: chunks[0] raises IndexError on an empty list, and
\* edit_text returns or raises; either exception enters the except clause.
EditFirst ==
    /\ pc = "edit"
    /\ \E ok \in BOOLEAN :
          IF ok /\ loc.chunks # <<>>
          THEN /\ sent' = Delivered("edit", "first", loc.chunks[1])
               /\ loc' = [loc EXCEPT !.i = 1]
               /\ pc' = "rest"
          ELSE /\ loc' = [loc EXCEPT !.i = 0]
               /\ pc' = "fallback"
               /\ UNCHANGED sent
    /\ UNCHANGED <<upd, logs0, storeVars, ghostVars, asideVars>>

\* Lines 405-406 and 370-371: for c in chunks[1:].
SendRest ==
    /\ pc = "rest"
    /\ IF loc.i < Len(loc.chunks)
       THEN /\ \E ok \in BOOLEAN :
                 IF ok
                 THEN /\ sent' = Delivered("send", "rest", loc.chunks[loc.i + 1])
                      /\ loc' = [loc EXCEPT !.i = @ + 1]
                      /\ pc' = "rest"
                 ELSE /\ loc' = [loc EXCEPT !.i = 0]
                      /\ pc' = "fallback"
                      /\ UNCHANGED sent
            /\ UNCHANGED ghostVars
       ELSE /\ Finished
            /\ UNCHANGED <<loc, sent>>
    /\ UNCHANGED <<upd, logs0, storeVars, asideVars>>

\* Lines 408-409 and 373-374: for c in chunks, in the except clause.
Fallback ==
    /\ pc = "fallback"
    /\ IF loc.i < Len(loc.chunks)
       THEN /\ \E ok \in BOOLEAN :
                 IF ok
                 THEN /\ sent' = Delivered("send", "fallback", loc.chunks[loc.i + 1])
                      /\ loc' = [loc EXCEPT !.i = @ + 1]
                      /\ pc' = "fallback"
                 ELSE /\ pc' = "failed"
                      /\ UNCHANGED <<loc, sent>>
            /\ UNCHANGED ghostVars
       ELSE /\ Finished
            /\ UNCHANGED <<loc, sent>>
    /\ UNCHANGED <<upd, logs0, storeVars, asideVars>>

----------------------------------------------------------------------------
(* details_cmd, clear_cmd, auto_cmd, language_cb                           *)

\* A notice to the user, the last statement of a handler: it returns or raises.
Notice(op, text) ==
    /\ \E ok \in BOOLEAN :
          IF ok
          THEN /\ sent' = Delivered(op, "notice", text)
               /\ pc' = "done"
          ELSE /\ pc' = "failed"
               /\ UNCHANGED sent

\* Lines 349-350.
DetailsPrefs ==
    /\ pc = "d_prefs"
    /\ loc' = [loc EXCEPT !.lang = get_user_prefs(users, upd.uid).lang]
    /\ pc' = "d_last"
    /\ UNCHANGED <<upd, sent, logs0, storeVars, ghostVars, asideVars>>

\* Lines 352-354: the last message of the user, if any.
DetailsLast ==
    /\ pc = "d_last"
    /\ LET row == last_message(logs, upd.uid, "user")
       IN  /\ loc' = [loc EXCEPT !.row = row]
           /\ pc' = IF row = NoRow THEN "d_none" ELSE "loading"
    /\ UNCHANGED <<upd, sent, logs0, storeVars, ghostVars, asideVars>>

\* Lines 355-356.
DetailsNone ==
    /\ pc = "d_none"
    /\ Notice("send", <<"no previous message", loc.lang>>)
    /\ UNCHANGED <<upd, loc, logs0, storeVars, ghostVars, asideVars>>

\* Line 308.
Clear ==
    /\ pc = "c_clear"
    /\ logs' = clear_logs(logs, upd.uid)
    /\ fresh' = [fresh EXCEPT ![upd.uid] = FALSE]
    /\ pc' = "c_reply"
    /\ UNCHANGED <<users, upd, loc, sent, logs0, answered, asideVars>>

\* Lines 309-310.
ClearReply ==
    /\ pc = "c_reply"
    /\ Notice("send", UiText("cleared", get_user_prefs(users, upd.uid).lang))
    /\ UNCHANGED <<upd, loc, logs0, storeVars, ghostVars, asideVars>>

\* Lines 301-303.
AutoToggle ==
    /\ pc = "a_toggle"
    /\ LET prefs == get_user_prefs(users, upd.uid)
       IN  /\ loc' = [loc EXCEPT !.pref_lang = prefs.lang, !.auto = prefs.auto]
           /\ users' = set_auto_detect(users, upd.uid, ~prefs.auto)
    /\ pc' = "a_reply"
    /\ UNCHANGED <<logs, upd, sent, logs0, ghostVars, asideVars>>

\* Lines 304-305.
AutoNotice ==
    /\ pc = "a_reply"
    /\ Notice("send", UiText(IF ~loc.auto THEN "auto on" ELSE "auto off", loc.pref_lang))
    /\ UNCHANGED <<upd, loc, logs0, storeVars, ghostVars, asideVars>>

\* Lines 278-279: q.answer() returns or raises.
LangAnswer ==
    /\ pc = "l_answer"
    /\ \E ok \in BOOLEAN : pc' = IF ok THEN "l_set" ELSE "failed"
    /\ UNCHANGED <<upd, loc, sent, logs0, storeVars, ghostVars, asideVars>>

\* Lines 280-281.
LangSet ==
    /\ pc = "l_set"
    /\ LET lang == PayloadCode(upd.data)
       IN  /\ loc' = [loc EXCEPT !.lang = lang]
           /\ users' = set_user_language(users, upd.uid, lang)
    /\ pc' = "l_edit"
    /\ UNCHANGED <<logs, upd, sent, logs0, ghostVars, asideVars>>

\* Lines 282-286.
LangNotice ==
    /\ pc = "l_edit"
    /\ Notice("edit", <<"language set",
                         IF loc.lang \in Languages THEN loc.lang ELSE "any">>)
    /\ UNCHANGED <<upd, loc, logs0, storeVars, ghostVars, asideVars>>

----------------------------------------------------------------------------
(* The bot: a fresh database, then one update after the other.             *)

Init ==
    /\ users = <<>>
    /\ logs = <<>>
    /\ HandlerIdle
    /\ answered = [u \in UserIds |-> <<>>]
    /\ fresh = [u \in UserIds |-> FALSE]
    /\ SplitIdle
    /\ CallIdle
    /\ QueueIdle

Next ==
    \/ \E u \in ChatUpdates : Dispatch(u)
    \/ Resolve \/ LogUser \/ AutoReply \/ LogAuto \/ SendAuto
    \/ Loading \/ Context \/ CallAI \/ LogBot \/ Split
    \/ EditFirst \/ SendRest \/ Fallback
    \/ DetailsPrefs \/ DetailsLast \/ DetailsNone
    \/ Clear \/ ClearReply
    \/ AutoToggle \/ AutoNotice
    \/ LangAnswer \/ LangSet \/ LangNotice
    \/ Return \/ on_error

Spec == Init /\ [][Next]_vars

\* The preference store on its own: /auto and the language buttons, for
\* every user.
PrefsNext ==
    \/ \E u \in PrefsUpdates : Dispatch(u)
    \/ AutoToggle \/ AutoNotice
    \/ LangAnswer \/ LangSet \/ LangNotice
    \/ Return \/ on_error

SpecPrefs == Init /\ [][PrefsNext]_vars

----------------------------------------------------------------------------
(* The bot with its update queue: updates are received at any time, also   *)
(* while a handler is in progress, and wait there; run_polling (line 436)  *)
(* takes them one at a time, the next one when the handler of the one      *)
(* before is over.                                                         *)

\* Updates received in all.
MaxArrivals == 2

\* A handler was called and has neither returned nor raised.
InProgress == pc \notin {"idle", "done", "failed"}

\* An update is received; waited says that a handler is in progress then.
Arrive(u) ==
    /\ Len(handled) + Len(queue) < MaxArrivals
    /\ queue' = Append(queue, [u |-> u, waited |-> InProgress])
    /\ UNCHANGED <<handled, storeVars, handlerVars, ghostVars, splitVars, callVars>>

\* The updates still waiting given up when one is taken.
Fetch_dropsWaiting ==
    /\ pc = "idle"
    /\ queue # <<>>
    /\ LET e == Head(queue)
       IN  /\ upd' = e.u
           /\ pc' = FirstPc(e.u.kind)
           /\ handled' = Append(handled, [u |-> e.u, waited |-> e.waited,
                                          users |-> users, logs |-> logs])
    /\ queue' = <<>>
    /\ loc' = NoLocals
    /\ sent' = <<>>
    /\ logs0' = logs
    /\ UNCHANGED <<storeVars, ghostVars, splitVars, callVars>>

\* The oldest update waiting is taken and its handler called; the tables
\* are noted as they are at that time.
Fetch ==
    /\ pc = "idle"
    /\ queue # <<>>
    /\ LET e == Head(queue)
       IN  /\ upd' = e.u
           /\ pc' = FirstPc(e.u.kind)
           /\ handled' = Append(handled, [u |-> e.u, waited |-> e.waited,
                                          users |-> users, logs |-> logs])
    /\ queue' = Tail(queue)
    /\ loc' = NoLocals
    /\ sent' = <<>>
    /\ logs0' = logs
    /\ UNCHANGED <<storeVars, ghostVars, splitVars, callVars>>

\* A step of on_message, its end included.
MessageStep ==
    \/ Resolve \/ LogUser \/ AutoReply \/ LogAuto \/ SendAuto
    \/ Loading \/ Context \/ CallAI \/ LogBot \/ Split
    \/ EditFirst \/ SendRest \/ Fallback
    \/ Return \/ on_error

\* A step of the handler in progress, its end included.
HandlerStep ==
    \/ MessageStep
    \/ DetailsPrefs \/ DetailsLast \/ DetailsNone
    \/ Clear \/ ClearReply
    \/ AutoToggle \/ AutoNotice
    \/ LangAnswer \/ LangSet \/ LangNotice

QueueNext ==
    \/ \E u \in ChatUpdates : Arrive(u)
    \/ Fetch
    \/ HandlerStep

SpecQueue == Init /\ [][QueueNext]_vars

\* Every await of a handler returns or raises in the end, and the
\* application goes on taking updates.
SpecQueueFair == SpecQueue /\ WF_vars(Fetch \/ HandlerStep)

\* The same with text messages only.
MessagesNext ==
    \/ \E u \in MessageUpdates({ChatUser}) : Arrive(u)
    \/ Fetch
    \/ MessageStep

SpecMessages == Init /\ [][MessagesNext]_vars

SpecMessagesFair == SpecMessages /\ WF_vars(Fetch \/ MessageStep)

----------------------------------------------------------------------------
(* split_text on its own: every text up to MaxTextLen, every max_len from  *)
(* 1 to MaxSplitLen.                                                       *)

TextsUpTo(n) == UNION {[1 .. k -> Chars] : k \in 0 .. n}

SplitInit ==
    /\ sp_text \in TextsUpTo(MaxTextLen)
    /\ sp_max_len \in 1 .. MaxSplitLen
    /\ sp_out = <<>>
    /\ sp_pc = "call"
    /\ users = <<>> /\ logs = <<>>
    /\ HandlerIdle
    /\ answered = [u \in UserIds |-> <<>>]
    /\ fresh = [u \in UserIds |-> FALSE]
    /\ CallIdle
    /\ QueueIdle

SplitCall ==
    /\ sp_pc = "call"
    /\ sp_out' = split_text(sp_text, sp_max_len)
    /\ sp_pc' = "returned"
    /\ UNCHANGED <<sp_text, sp_max_len, storeVars, handlerVars, ghostVars,
                   callVars, queueVars>>

SplitNext == SplitCall

SpecSplit == SplitInit /\ [][SplitNext]_vars

----------------------------------------------------------------------------
(* The database functions called on their own, on the rows of every user:  *)
(* log_message, clear_logs, get_history and build_context_messages.        *)

\* Rows of table logs when the functions are called on their own.
MaxStoreRows == 4
\* The largest limit and max_items asked for.
MaxLimit == 3

\* The turns given to log_message for a user, in this order and over again.
Turns == << <<"user", <<"A">> >>, <<"bot", <<"B">> >>, <<"user", <<"C">> >> >>

\* The turn appended next for the user.
NextTurn(user_id) == Turns[(Len(RowsOf(logs, user_id)) % Len(Turns)) + 1]

\* The languages given to build_context_messages: those of the bot and
\* a code it has no instruction text for.
ContextLangs == Languages \cup {"xx"}

\* The call fn(args) returned ret; again says that clear_logs was called
\* a second time in a row with the same argument.
Called(fn, args, ret) ==
    [fn |-> fn, args |-> args, ret |-> ret,
     again |-> fn = "clear_logs" /\ call.fn = fn /\ call.args = args,
     pc |-> "returned"]

StoreLog(user_id) ==
    /\ Len(logs) < MaxStoreRows
    /\ LET turn == NextTurn(user_id)
       IN  /\ logs' = log_message(logs, user_id, turn[1], turn[2])
           /\ hist' = [hist EXCEPT ![user_id] = Append(@, turn)]
           /\ call' = Called("log_message", <<user_id, turn[1], turn[2]>>, <<>>)
    /\ UNCHANGED <<users, handlerVars, ghostVars, splitVars, queueVars>>

StoreClear(user_id) ==
    /\ logs' = clear_logs(logs, user_id)
    /\ hist' = [hist EXCEPT ![user_id] = <<>>]
    /\ call' = Called("clear_logs", <<user_id>>, <<>>)
    /\ UNCHANGED <<users, handlerVars, ghostVars, splitVars, queueVars>>

StoreHistory(user_id, limit) ==
    /\ call' = Called("get_history", <<user_id, limit>>,
                      get_history(logs, user_id, limit))
    /\ UNCHANGED <<storeVars, hist, handlerVars, ghostVars, splitVars, queueVars>>

StoreContext(user_id, lang, max_items) ==
    /\ call' = Called("build_context_messages", <<user_id, lang, max_items>>,
                      build_context_messages(logs, user_id, lang, max_items))
    /\ UNCHANGED <<storeVars, hist, handlerVars, ghostVars, splitVars, queueVars>>

StoreNext ==
    \/ \E u \in UserIds : StoreLog(u)
    \/ \E u \in UserIds : StoreClear(u)
    \/ \E u \in UserIds, limit \in 0 .. MaxLimit : StoreHistory(u, limit)
    \/ \E u \in UserIds, lang \in ContextLangs, n \in 0 .. MaxLimit :
          StoreContext(u, lang, n)

SpecStore == Init /\ [][StoreNext]_vars

----------------------------------------------------------------------------
(* try_auto_reply on its own: every text of up to MaxWords words, every    *)
(* language and a code that has no rule list.                              *)

\* Longest text given to try_auto_reply on its own.
MaxWords == 2

\* Words of the three rule lists, and one that no rule looks for.
Words ==
    {"hello", "thanks", "who are you", "merci", "bonjour", "salam", "recursion"}

WordTexts == UNION {[1 .. k -> Words] : k \in 0 .. MaxWords}

MatchInit ==
    /\ call \in {[fn |-> "try_auto_reply", args |-> <<text, lang>>, ret |-> <<>>,
                  again |-> FALSE, pc |-> "call"] :
                    text \in WordTexts, lang \in ContextLangs}
    /\ hist = [u \in UserIds |-> <<>>]
    /\ users = <<>> /\ logs = <<>>
    /\ HandlerIdle
    /\ answered = [u \in UserIds |-> <<>>]
    /\ fresh = [u \in UserIds |-> FALSE]
    /\ SplitIdle
    /\ QueueIdle

MatchCall ==
    /\ call.pc = "call"
    /\ call' = [call EXCEPT !.ret = try_auto_reply(call.args[1], call.args[2]),
                            !.pc = "returned"]
    /\ UNCHANGED <<hist, storeVars, handlerVars, ghostVars, splitVars, queueVars>>

MatchNext == MatchCall

SpecMatch == MatchInit /\ [][MatchNext]_vars

----------------------------------------------------------------------------
(* Claims about the handlers, checked under Spec.                          *)

\* The rows the handler in progress has added to table logs.
Appended == SubSeq(logs, Len(logs0) + 1, Len(logs))

UserRow == [user_id |-> upd.uid, role |-> "user", message |-> upd.text]
BotRow(message) == [user_id |-> upd.uid, role |-> "bot", message |-> message]

\* What the user was sent of the AI reply, in order: all of it, then the
\* part sent by edit_text and in the try clause, then the part sent in the
\* except clause.
AnswerSent == SelectSeq(sent, LAMBDA m : m.via \in {"first", "rest", "fallback"})
TrySent == SelectSeq(sent, LAMBDA m : m.via \in {"first", "rest"})
ExceptSent == SelectSeq(sent, LAMBDA m : m.via = "fallback")

TextsOf(ms) == [k \in 1 .. Len(ms) |-> ms[k].text]

\* s is the first elements of t.
IsPrefix(s, t) == Len(s) <= Len(t) /\ s = SubSeq(t, 1, Len(s))

\* The handler has shown the placeholder: it is on the AI path.
OnAIPath == \E k \in 1 .. Len(sent) : sent[k].via = "placeholder"

\* C1: in on_message the user turn is in the history before the auto-reply
\* branch is taken; the bot turn is in the history before anything of the
\* answer is delivered, by the edit, by a new message or in the except
\* clause; and it is still there when the delivery has failed.
C1_LogBeforeDelivery ==
    /\ (upd.kind = "message" /\ pc \notin {"resolve", "log_user"}) =>
           (Appended # <<>> /\ Appended[1] = UserRow)
    /\ (\E k \in 1 .. Len(sent) : sent[k].via = "auto") =>
           (upd.kind = "message" /\ Appended = <<UserRow, BotRow(loc.auto_reply[1])>>)
    /\ AnswerSent # <<>> =>
           (Appended # <<>> /\ Appended[Len(Appended)] = BotRow(loc.reply))
    /\ (pc = "failed" /\ OnAIPath) =>
           last_message(logs, upd.uid, "bot") = <<loc.reply>>

\* The bot turn is in the history, chunks were delivered in the except
\* clause, and the delivery then failed.
C1_Witness ==
    /\ pc = "failed"
    /\ upd.kind = "message"
    /\ ExceptSent # <<>>
    /\ last_message(logs, upd.uid, "bot") = <<loc.reply>>

\* C2: when the AI call fails, in any of the four ways, call_mistral
\* returns the apology; the handler goes on, the apology is the bot turn
\* appended, and when the delivery is over what was delivered as the
\* answer is the apology, which is the last bot entry of the user.
C2_ApologyOnAIFailure ==
    loc.ai \in {"timeout", "transport", "status", "malformed"} =>
        /\ loc.reply = Apology
        /\ pc \in {"log_bot", "split", "edit", "rest", "fallback", "done", "failed"}
        /\ pc # "log_bot" => last_message(logs, upd.uid, "bot") = <<Apology>>
        /\ pc \notin {"log_bot", "split"} => loc.chunks = <<Apology>>
        /\ pc = "done" =>
              /\ AnswerSent # <<>>
              /\ AnswerSent[Len(AnswerSent)].text = Apology
              /\ \A k \in 1 .. Len(AnswerSent) : AnswerSent[k].text = Apology

\* "explain recursion" with language en, the AI call timing out, delivered.
C2_Witness ==
    /\ pc = "done"
    /\ upd.kind = "message"
    /\ upd.text = <<"explain", SP, "recursion">>
    /\ loc.lang = "en"
    /\ loc.ai = "timeout"
    /\ TextsOf(AnswerSent) = <<Apology>>

\* C3: the first chunk is delivered by editing the placeholder and the
\* next ones as new messages, in order; when the edit (or a later send)
\* fails, the except clause sends every chunk from the first as a new
\* message, in order; a delivery that is over has sent every chunk.
C3_DeliveryProtocol ==
    /\ AnswerSent = TrySent \o ExceptSent
    /\ IsPrefix(TextsOf(TrySent), loc.chunks)
    /\ IsPrefix(TextsOf(ExceptSent), loc.chunks)
    /\ \A k \in 1 .. Len(TrySent) :
          /\ TrySent[k].op = (IF k = 1 THEN "edit" ELSE "send")
          /\ TrySent[k].via = (IF k = 1 THEN "first" ELSE "rest")
    /\ \A k \in 1 .. Len(ExceptSent) : ExceptSent[k].op = "send"
    /\ (pc = "fallback" /\ loc.chunks # <<>>) => Len(TrySent) < Len(loc.chunks)
    /\ (pc = "done" /\ OnAIPath) =>
          \/ ExceptSent = <<>> /\ TextsOf(TrySent) = loc.chunks
          \/ TextsOf(ExceptSent) = loc.chunks

\* The edit of the placeholder failed and the three chunks of a reply were
\* all sent as new messages.
C3_Witness ==
    /\ pc = "done"
    /\ TrySent = <<>>
    /\ Len(loc.chunks) = 3
    /\ TextsOf(ExceptSent) = loc.chunks

\* C4: when the matcher returns a canned reply, on_message makes no AI
\* call and shows no placeholder; when it returns, the history of the user
\* has gained exactly the user turn and the canned reply as bot turn, and
\* the one message delivered is the canned reply.
C4_AutoReplyShortCircuit ==
    (upd.kind = "message" /\ loc.auto_reply # <<>>) =>
        /\ ~OnAIPath
        /\ loc.ai = "" /\ loc.msgs = <<>> /\ AnswerSent = <<>>
        /\ pc \in {"log_auto", "send_auto", "done", "failed"}
        /\ pc = "done" =>
              /\ RowsOf(logs, upd.uid) =
                    RowsOf(logs0, upd.uid) \o <<UserRow, BotRow(loc.auto_reply[1])>>
              /\ sent = <<[op |-> "send", via |-> "auto", text |-> loc.auto_reply[1]]>>
        /\ pc = "failed" =>
              /\ RowsOf(logs, upd.uid) =
                    RowsOf(logs0, upd.uid) \o <<UserRow, BotRow(loc.auto_reply[1])>>
              /\ sent = <<>>

\* "hello" on an empty history, answered by the English greeting.
C4_Witness ==
    /\ pc = "done"
    /\ upd.text = <<"hello">>
    /\ logs0 = <<>>
    /\ get_history(logs, upd.uid, 10) =
          << <<"user", <<"hello">> >>, <<"bot", <<"en:greeting">> >> >>
    /\ TextsOf(sent) = << <<"en:greeting">> >>

\* C5 as stated: whenever no handler is in progress, the last bot entry of
\* the user is the answer delivered last (none of the one, none of the other).
C5_LastBotIsLastDelivered ==
    pc = "idle" => last_message(logs, ChatUser, "bot") = answered[ChatUser]

\* C5 amended: whenever no handler is in progress, the last bot entry of
\* the user is the answer delivered last, provided the delivery of that
\* entry was completed (every chunk sent, and at least one) and /clear has
\* not run since.
C5_LastBotIsLastCompleted ==
    (pc = "idle" /\ fresh[ChatUser]) =>
        /\ answered[ChatUser] # <<>>
        /\ last_message(logs, ChatUser, "bot") = answered[ChatUser]

\* A reply of three chunks was delivered and is the last bot entry.
C5_Witness ==
    /\ pc = "idle"
    /\ fresh[ChatUser]
    /\ answered[ChatUser] = <<ReplyLong>>
    /\ last_message(logs, ChatUser, "bot") = <<ReplyLong>>

\* C10: for a user whose auto-detect flag is off, the language on_message
\* works with is the language preference of the user, whatever the text
\* and whatever the detector would say of it.
C10_PreferenceWhenAutoOff ==
    (upd.kind = "message" /\ pc # "resolve"
       /\ ~get_user_prefs(users, upd.uid).auto) =>
        /\ loc.lang = get_user_prefs(users, upd.uid).lang
        /\ (users[upd.uid].language # "" => loc.lang = users[upd.uid].language)

\* Auto-detect off and French stored: "hello" is handled in French, and
\* finds no French rule.
C10_Witness ==
    /\ upd.kind = "message"
    /\ upd.text = <<"hello">>
    /\ pc = "loading"
    /\ upd.uid \in DOMAIN users
    /\ users[upd.uid] = [language |-> "fr", auto_detect |-> 0]
    /\ loc.lang = "fr"

----------------------------------------------------------------------------
(* Claims about the preference store, checked under SpecPrefs.             *)

\* The other users' rows are those of before.
OthersUnchanged(uid) ==
    /\ DOMAIN users' \ {uid} = DOMAIN users \ {uid}
    /\ \A u \in DOMAIN users \ {uid} : users'[u] = users[u]

\* C6: set_user_language writes the language and leaves auto_detect as it
\* is, set_auto_detect writes the flag and leaves the language as it is;
\* for a user without a row the other field is the default (auto-detect
\* on, language en); the rows of the other users are not touched.
C6_UpsertKeepsOtherField ==
    [][/\ pc = "l_set" =>
            /\ upd.uid \in DOMAIN users'
            /\ users'[upd.uid].language = PayloadCode(upd.data)
            /\ users'[upd.uid].auto_detect =
                  (IF upd.uid \in DOMAIN users THEN users[upd.uid].auto_detect ELSE 1)
            /\ get_user_prefs(users', upd.uid).auto = get_user_prefs(users, upd.uid).auto
            /\ OthersUnchanged(upd.uid)
       /\ pc = "a_toggle" =>
            /\ upd.uid \in DOMAIN users'
            /\ users'[upd.uid].auto_detect =
                  (IF get_user_prefs(users, upd.uid).auto THEN 0 ELSE 1)
            /\ users'[upd.uid].language =
                  (IF upd.uid \in DOMAIN users THEN users[upd.uid].language ELSE "en")
            /\ get_user_prefs(users', upd.uid).lang = get_user_prefs(users, upd.uid).lang
            /\ OthersUnchanged(upd.uid)
      ]_vars

\* French chosen and auto-detect toggled off reads back as (fr, false),
\* here with the language button pressed last, on another user's row.
C6_Witness ==
    /\ pc = "done"
    /\ upd.kind = "callback"
    /\ upd.uid = 2
    /\ get_user_prefs(users, 2) = [lang |-> "fr", auto |-> FALSE]
    /\ 1 \in DOMAIN users

----------------------------------------------------------------------------
(* Claims about split_text, checked under SpecSplit.                       *)

\* s with its whitespace characters removed.
NoWhitespace(s) == SelectSeq(s, LAMBDA c : c \notin Whitespace)

\* C7: for every input text split_text returns at least one chunk, and for
\* the empty string exactly one chunk, the empty string.
C7_NeverZeroChunks ==
    sp_pc = "returned" =>
        /\ Len(sp_out) >= 1
        /\ (sp_text = <<>> => sp_out = << <<>> >>)

\* C8: for every text and every max_len >= 1, no chunk returned by
\* split_text is longer than max_len.
C8_ChunkWithinMaxLen ==
    sp_pc = "returned" =>
        \A k \in 1 .. Len(sp_out) : Len(sp_out[k]) <= sp_max_len

\* A text cut into several chunks, one of them as long as max_len allows.
C8_Witness ==
    /\ sp_pc = "returned"
    /\ Len(sp_out) >= 2
    /\ \E k \in 1 .. Len(sp_out) : Len(sp_out[k]) = sp_max_len

\* C9 as stated: the chunks, concatenated in order and trimmed, give back
\* the trimmed original text.
C9_JoinIsTrimmedText ==
    sp_pc = "returned" => strip(Join(sp_out)) = strip(sp_text)

\* C9 amended: the chunks concatenated in order are the trimmed original
\* text without the whitespace next to the cuts: the same non-whitespace
\* characters in the same order, and the trimmed text itself when it is
\* no longer than max_len.
C9_JoinKeepsNonWhitespace ==
    sp_pc = "returned" =>
        /\ NoWhitespace(Join(sp_out)) = NoWhitespace(sp_text)
        /\ (Len(strip(sp_text)) <= sp_max_len => Join(sp_out) = strip(sp_text))

\* A text cut into several chunks whose concatenation lost whitespace.
C9_Witness ==
    /\ sp_pc = "returned"
    /\ Len(sp_out) >= 2
    /\ Join(sp_out) # strip(sp_text)

\* The positions of character c among the first n characters of t.
PositionsWithin(t, c, n) == {p \in 1 .. Len(t) : p <= n /\ t[p] = c}

Last(ps) == CHOOSE p \in ps : \A q \in ps : q <= p

\* The number of characters before the cut the claim describes: those
\* before the last newline among the first max_len characters of t, else
\* those before the last space among them, else max_len.
PreferredCut(t, max_len) ==
    LET newlines == PositionsWithin(t, NL, max_len)
        spaces == PositionsWithin(t, SP, max_len)
    IN  IF newlines # {} THEN Last(newlines) - 1
        ELSE IF spaces # {} THEN Last(spaces) - 1
        ELSE max_len

\* C18: while the remaining text is longer than max_len, split_text cuts
\* it at the last newline within its first max_len characters, else at
\* the last space within them, else after exactly max_len characters:
\* the first chunk is the trimmed text before that cut, and the chunks
\* after it are those of the text from the cut on.
C18_CutAtNewlineThenSpaceThenHard ==
    sp_pc = "returned" /\ Len(strip(sp_text)) > sp_max_len =>
        LET t == strip(sp_text)
            cut == PreferredCut(t, sp_max_len)
        IN  sp_out = <<strip(SubSeq(t, 1, cut))>>
                        \o split_text(SubSeq(t, cut + 1, Len(t)), sp_max_len)

\* A text with a space after the last newline of its first max_len
\* characters, cut at the newline and not at the space.
C18_Witness ==
    /\ sp_pc = "returned"
    /\ sp_text = <<"a", NL, "b", SP, "a">>
    /\ sp_max_len = 4
    /\ sp_out = << <<"a">>, <<"b", SP, "a">> >>

----------------------------------------------------------------------------
(* Claims about the database functions, checked under SpecStore.           *)

\* The last n elements of s.
LastN(s, n) == SubSeq(s, IF Len(s) > n THEN Len(s) - n + 1 ELSE 1, Len(s))

\* C11: get_history(user, limit) returns the entries appended for that
\* user (since the user's history was last cleared) that are the limit
\* most recent ones, all of them when there are fewer, oldest first, and
\* nothing of another user.
C11_HistoryIsNewestInOrder ==
    call.fn = "get_history" =>
        LET mine == hist[call.args[1]]
            limit == call.args[2]
        IN  /\ Len(call.ret) = Min(limit, Len(mine))
            /\ call.ret = LastN(mine, limit)
            /\ \A k \in 1 .. Len(call.ret) :
                  call.ret[k] = mine[Len(mine) - Len(call.ret) + k]

\* A, B, C appended for a user, another user having an entry too:
\* get_history(user, 2) is [B, C].
C11_Witness ==
    /\ call.fn = "get_history"
    /\ call.args = <<1, 2>>
    /\ hist[1] = << <<"user", <<"A">> >>, <<"bot", <<"B">> >>, <<"user", <<"C">> >> >>
    /\ hist[2] # <<>>
    /\ call.ret = << <<"bot", <<"B">> >>, <<"user", <<"C">> >> >>

\* C14: build_context_messages(user, lang, max_items) returns one system
\* message, the instruction text of lang (the English one for a code that
\* is not ar, fr or en), followed by the max_items most recent entries of
\* the user (all of them when there are fewer), oldest first, user turns
\* as user and bot turns as assistant; that is 1 to 1 + max_items
\* messages; and the call leaves the tables as they are.
C14_ContextIsSystemThenHistory ==
    /\ [](call.fn = "build_context_messages" =>
            LET lang == call.args[2]
                n == call.args[3]
                recent == LastN(hist[call.args[1]], n)
                msgs == call.ret
            IN  /\ Len(msgs) = 1 + Min(n, Len(hist[call.args[1]]))
                /\ 1 <= Len(msgs) /\ Len(msgs) <= 1 + n
                /\ msgs[1].role = "system"
                /\ msgs[1].content =
                      (CASE lang = "ar" -> <<"system", "ar">>
                         [] lang = "fr" -> <<"system", "fr">>
                         [] OTHER -> <<"system", "en">>)
                /\ \A k \in 2 .. Len(msgs) :
                      /\ msgs[k].role =
                            (IF recent[k - 1][1] = "user" THEN "user" ELSE "assistant")
                      /\ msgs[k].content = recent[k - 1][2])
    /\ [][call'.fn = "build_context_messages" => (logs' = logs /\ users' = users)]_vars

\* Three entries of a user, a bot turn among them, and a language code
\* without instruction text: the context asked with max_items = 2 is the
\* English instruction and the two newest entries.
C14_Witness ==
    /\ call.fn = "build_context_messages"
    /\ call.args[2] = "xx" /\ call.args[3] = 2
    /\ Len(hist[call.args[1]]) = 3
    /\ Len(call.ret) = 3
    /\ call.ret[1].content = <<"system", "en">>
    /\ call.ret[2].role = "assistant"
    /\ call.ret[3] = [role |-> "user", content |-> <<"C">>]

\* C12: after clear_logs(user) the table has no row of the user and
\* get_history(user, N) is empty for every N; calling it again, or calling
\* it for a user who has no entry, changes nothing; the rows of the other
\* users stay as they are.
C12_ClearEmptiesAndIsIdempotent ==
    /\ [](call.fn = "clear_logs" =>
            /\ RowsOf(logs, call.args[1]) = <<>>
            /\ \A n \in -1 .. MaxStoreRows + 1 :
                  get_history(logs, call.args[1], n) = <<>>
            /\ clear_logs(logs, call.args[1]) = logs)
    /\ [][call'.fn = "clear_logs" =>
            /\ (call'.again => logs' = logs)
            /\ (RowsOf(logs, call'.args[1]) = <<>> => logs' = logs)
            /\ \A v \in UserIds \ {call'.args[1]} :
                  RowsOf(logs', v) = RowsOf(logs, v)]_vars

\* clear_logs called twice in a row for a user, the other user keeping
\* entries.
C12_Witness ==
    /\ call.fn = "clear_logs"
    /\ call.again
    /\ hist[call.args[1]] = <<>>
    /\ logs # <<>>
    /\ get_history(logs, call.args[1], MaxLimit) = <<>>

----------------------------------------------------------------------------
(* Claims about try_auto_reply, checked under SpecMatch.                   *)

\* Rule k of language lang matches text.
Matches(lang, k, text) == Search(AUTO_PATTERNS[lang][k], text)

\* C13: try_auto_reply(text, lang) returns the reply of the first rule of
\* the list of lang, in list order, that matches the text, whatever rules
\* further down the list match too; it returns no match when no rule of
\* that list matches, or lang has no list, whatever the other languages'
\* rules say.
C13_FirstRuleOfLanguageWins ==
    (call.fn = "try_auto_reply" /\ call.pc = "returned") =>
        LET text == call.args[1]
            lang == call.args[2]
        IN  IF lang \in DOMAIN AUTO_PATTERNS
               /\ \E k \in 1 .. Len(AUTO_PATTERNS[lang]) : Matches(lang, k, text)
            THEN \E k \in 1 .. Len(AUTO_PATTERNS[lang]) :
                    /\ Matches(lang, k, text)
                    /\ \A j \in 1 .. k - 1 : ~Matches(lang, j, text)
                    /\ call.ret = <<AUTO_PATTERNS[lang][k].reply>>
            ELSE call.ret = <<>>

\* The second and the third English rule both match, the third one's
\* words coming first in the text: the reply is the second rule's.
C13_Witness ==
    /\ call.fn = "try_auto_reply" /\ call.pc = "returned"
    /\ call.args = << <<"who are you", "thanks">>, "en" >>
    /\ Matches("en", 2, call.args[1]) /\ Matches("en", 3, call.args[1])
    /\ Matches("fr", 2, call.args[1])
    /\ call.ret = << <<"en:welcome">> >>

----------------------------------------------------------------------------
(* Claims about updates received while a handler is in progress, checked   *)
(* under SpecQueue.                                                        *)

\* The update taken last and the one taken before it.
LastTaken == handled[Len(handled)]
TakenBefore == handled[Len(handled) - 1]

\* The two updates taken last are of one user and of the kinds k1 and k2
\* in this order, the second one received while a handler was in progress,
\* and its own handler not over yet.
Overlapping(k1, k2) ==
    /\ Len(handled) >= 2
    /\ pc # "idle"
    /\ TakenBefore.u.kind = k1
    /\ LastTaken.u.kind = k2
    /\ TakenBefore.u.uid = LastTaken.u.uid
    /\ LastTaken.waited

\* The row of the user holds the language code and the flag.
RowIs(t, uid, code, flag) ==
    /\ uid \in DOMAIN t
    /\ t[uid].language = code
    /\ t[uid].auto_detect = (IF flag THEN 1 ELSE 0)

\* The three statements of the two handlers on table t, in each order
\* that keeps get_user_prefs before set_auto_detect, come to the same
\* row: the language code and the flag toggled.
StatementOrdersAgree(t, uid, code) ==
    LET flag == ~get_user_prefs(t, uid).auto
        langFirst == set_user_language(t, uid, code)
    IN  /\ ~get_user_prefs(langFirst, uid).auto = flag
        /\ set_auto_detect(langFirst, uid, flag) =
              set_user_language(set_auto_detect(t, uid, flag), uid, code)
        /\ RowIs(set_auto_detect(langFirst, uid, flag), uid, code, flag)

\* C15: a language button and /auto of the same user, one received while
\* the handler of the other is in progress, lose no update: whichever is
\* handled first, once both have written, the row of the user holds the
\* language of the button and the flag toggled from what it was before
\* the two; and on every table reached the statements of the two
\* handlers give that row in whichever order they are executed.
C15_NoLostPreferenceUpdate ==
    /\ \A d \in Payloads : StatementOrdersAgree(users, ChatUser, PayloadCode(d))
    /\ (Overlapping("callback", "auto") /\ pc \in {"a_reply", "done"}
          /\ TakenBefore.u.uid \in DOMAIN LastTaken.users
          /\ LastTaken.users[upd.uid].language = PayloadCode(TakenBefore.u.data)) =>
            RowIs(users, upd.uid, PayloadCode(TakenBefore.u.data),
                  ~get_user_prefs(TakenBefore.users, upd.uid).auto)
    /\ (Overlapping("auto", "callback") /\ pc \in {"l_edit", "done"}) =>
            /\ upd.uid \in DOMAIN LastTaken.users
            /\ get_user_prefs(LastTaken.users, upd.uid).auto =
                  ~get_user_prefs(TakenBefore.users, upd.uid).auto
            /\ RowIs(users, upd.uid, PayloadCode(upd.data),
                     ~get_user_prefs(TakenBefore.users, upd.uid).auto)

\* French was chosen, /auto was received while language_cb was in
\* progress, and both have returned: the row is (fr, off).
C15_Witness ==
    /\ pc = "done"
    /\ Overlapping("callback", "auto")
    /\ TakenBefore.u.data = <<"lang", "_", "fr">>
    /\ TakenBefore.users = <<>>
    /\ RowIs(LastTaken.users, upd.uid, "fr", TRUE)
    /\ RowIs(users, upd.uid, "fr", FALSE)

----------------------------------------------------------------------------
(* Claims about a message received while on_message is in progress,        *)
(* checked under SpecMessagesFair.                                         *)

\* The bot turn of the run of on_message in progress.
BotTurn == IF loc.auto_reply # <<>> THEN loc.auto_reply[1] ELSE loc.reply

\* The rows table logs gained between the last two updates taken.
GainedBefore == SubSeq(LastTaken.logs, Len(TakenBefore.logs) + 1, Len(LastTaken.logs))

RolesOf(rows) == [k \in 1 .. Len(rows) |-> rows[k].role]

\* C16 as stated: every run of on_message gets to a terminal state, the
\* canned reply or the chunks delivered, and of two messages, the second
\* received before the run of the first is over, each run has appended
\* one user turn and one bot turn when the second is over: four entries.
C16_BothRunsDeliver ==
    /\ [](Overlapping("message", "message") /\ pc \in {"done", "failed"} =>
            /\ Len(logs) = Len(TakenBefore.logs) + 4
            /\ Len(GainedBefore) = 2
            /\ Len(Appended) = 2)
    /\ (upd.kind = "message" /\ InProgress) ~> (upd.kind = "message" /\ pc = "done")

\* C16 amended: a message received while on_message is in progress waits
\* and is taken when that run is over, and nothing cancels either run:
\* no message received leaves the queue untaken, and again and again
\* nothing is waiting and no run is in progress, every run having ended
\* by returning or by raising in a transport call; a run that returns has appended one
\* user turn and then one bot turn, a run that raises the user turn and
\* at most the bot turn; the rows of the second run all come after those
\* of the first, so that when both have appended their two turns the
\* history has gained user, bot, user, bot.
C16_RunsEndInTurn ==
    /\ [](upd.kind = "message" /\ pc = "done" =>
            Appended = <<UserRow, BotRow(BotTurn)>>)
    /\ [](upd.kind = "message" /\ pc = "failed" =>
            Appended \in {<<UserRow>>, <<UserRow, BotRow(BotTurn)>>})
    /\ [](Overlapping("message", "message") =>
            /\ logs = LastTaken.logs \o Appended
            /\ Len(GainedBefore) \in {1, 2}
            /\ GainedBefore[1] = [user_id |-> upd.uid, role |-> "user",
                                  message |-> TakenBefore.u.text]
            /\ (pc = "done" /\ Len(GainedBefore) = 2 =>
                  /\ Len(logs) = Len(TakenBefore.logs) + 4
                  /\ RolesOf(GainedBefore \o Appended) =
                        <<"user", "bot", "user", "bot">>))
    /\ [][Len(handled') + Len(queue') >= Len(handled) + Len(queue)]_vars
    /\ []<>(pc = "idle" /\ queue = <<>>)

\* "hello" was received while the run of "explain recursion" was waiting
\* for the AI or delivering; both runs have returned and the history is
\* the four turns.
C16_Witness ==
    /\ pc = "done"
    /\ Overlapping("message", "message")
    /\ TakenBefore.u.text = <<"explain", SP, "recursion">>
    /\ upd.text = <<"hello">>
    /\ TakenBefore.logs = <<>>
    /\ Len(logs) = 4
    /\ RolesOf(logs) = <<"user", "bot", "user", "bot">>
    /\ logs[4].message = <<"en:greeting">>

\* C17: in every reachable state the language stored for every user is one
\* of ar, fr, en, whatever payloads lang_<code> the handler of the pattern
\* ^lang_ was given and whatever /auto toggles ran.
C17_LanguageInClosedSet ==
    \A u \in DOMAIN users : users[u].language \in Languages

\* C19: on the AI path of on_message the context handed to the AI call
\* ends with the message being processed, (user, text of this message),
\* whatever messages, /details and /clear commands of the same user were
\* received before it or while it is in progress.
C19_ContextEndsWithThisMessage ==
    upd.kind = "message" /\ pc = "call" =>
        /\ Len(loc.msgs) >= 2
        /\ loc.msgs[Len(loc.msgs)] = [role |-> "user", content |-> upd.text]

\* The context of a message received while the run of another message of
\* the user was in progress: it holds the turns of that run and ends with
\* this message.
C19_Witness ==
    /\ pc = "call"
    /\ Overlapping("message", "message")
    /\ TakenBefore.u.text # upd.text
    /\ Len(loc.msgs) = 4
    /\ loc.msgs[2].content = TakenBefore.u.text
    /\ loc.msgs[4].content = upd.text

\* C20: for one AI reply no chunk is delivered more than once: whichever
\* transport call fails, no chunk delivered by the try block (the first as
\* the edited placeholder, the next ones as new messages) is delivered
\* again by the except clause.
C20_NoChunkDeliveredTwice ==
    \A k \in 1 .. Len(loc.chunks) :
        ~(k <= Len(TrySent) /\ k <= Len(ExceptSent))

====
